---- MODULE Spec2Model ----
(***************************************************************************)
(* Quiz-game: the App component (src/src/index.tsx) and the question       *)
(* sequencer MainPanel (src/src/MainPanel.tsx) as a state machine.         *)
(*                                                                         *)
(* Granularity.  The program is a Preact application; one step of the     *)
(* model is one browser task:                                              *)
(*   - an event handler or timer callback, followed by the re-render its   *)
(*     state updates cause (the re-render is queued as a microtask, so no  *)
(*     other task runs in between);                                        *)
(*   - or the deferred run of the useEffect callbacks of the last render   *)
(*     (useEffect callbacks run in a later task, after the frame has been  *)
(*     painted), followed by the re-render their state updates cause.      *)
(* Effects still pending when a component re-renders are run first, with   *)
(* the values of the render that scheduled them.  The state variables      *)
(* therefore always hold the values of the render on screen, which are     *)
(* also the values every handler closure sees.                             *)
(*                                                                         *)
(* The weighted score is kept in tenths (1.3 is 13); the score a session   *)
(* completes with is a fraction of tenths.                                 *)
(*                                                                         *)
(* Specifications: Spec (the application, from the welcome panel),         *)
(* SpecFair (Spec with fair ticks and effects), SpecSave (the application  *)
(* with Restart and the Save button of the leaderboard panel),             *)
(* SpecSession (one session by its clicks, at chosen elapsed seconds),     *)
(* SpecWeight and SpecFactor (weight() and the time factor applied alone), *)
(* SpecBoard (the leaderboard: load from storage, save, play again),       *)
(* SpecApp (the application with its side panel and Restart, so with       *)
(* overlapping fetches), SpecUrl (buildApiUrl applied alone), SpecOptions, *)
(* SpecError and SpecChoice (OptionsPanel, ErrorPanel and MultipleChoice   *)
(* by themselves).                                                         *)
(***************************************************************************)
EXTENDS Integers, Sequences, FiniteSets, TLC

\* ------------------------------------------------------------------ bounds
MaxQuestions == 2
MaxElapsed == 2
MaxWeightList == 3
MaxShortList == 2
MaxStored == 11
MaxSaves == 2
MaxSessionQuestions == 3
MaxScored == 2
MaxInflight == 2
MaxAnswers == 4

\* ------------------------------------------------------- program constants
CountdownStart == 10
GraceSeconds == 60
MaxBoard == 10
\* The clock (new Date()) when the first entry is saved.
ClockStart == 100

NULL == "null"
\* questions === null and finishedStats === null, as values of the same shape
\* as a question list and a stats object.
NoQuestions == <<NULL>>
NoStats == [score |-> -1, trueScore |-> [num |-> 0, den |-> 1]]
\* The difficulties of the questions a fetch delivers: the provider's three and
\* an unrecognized one.
Difficulties == {"easy", "medium", "hard", ""}
\* The strings weight() is applied to by the weight check.
WeightInputs == {"easy", "medium", "hard", "", "Hard", "MEDIUM", "Easy"}
ErrorMessages == {"HTTP 429", "Fetch error"}

RECURSIVE SeqsUpTo(_, _)
SeqsUpTo(S, n) ==
    IF n = 0 THEN {<<>>}
    ELSE LET shorter == SeqsUpTo(S, n - 1)
         IN shorter \cup {Append(q, d) : q \in {x \in shorter : Len(x) = n - 1}, d \in S}

\* The question lists a fetch can deliver (each question is its difficulty).
QuestionLists == SeqsUpTo(Difficulties, MaxQuestions)

VARIABLES
    \* App state (index.tsx)
    questions, error, gameStarted, elapsed, finishedStats, inflight,
    \* App elapsed-timer effect
    appPend, elapsedTimer,
    \* MainPanel state (MainPanel.tsx)
    index, score, trueScore, finished, answered, countdown, timeExpired,
    \* MainPanel effects: pending flags, active countdown intervals, cleanup
    pendReset, pendCount, timers, hasCleanup,
    \* answer component of the current question
    locked,
    \* history: last operation, scores at question entry, completion events of
    \* the session, results of the weight check
    evt, entry, completions, weighed,
    \* history: the answers handleAnswer accepted since MainPanel was mounted
    accepted,
    \* history: results of the time-factor check
    scored,
    \* leaderboard (index.tsx): the localStorage slot, the leaderboard state,
    \* whether App is mounted, the saved flag of LeaderboardPanel, the clock
    storage, leaderboard, boot, panelSaved, now,
    \* history: the list before the last save and the entry it inserted
    prevBoard, lastEntry,
    \* history: how the setItem of the last save ended
    lastWrite,
    \* App state (index.tsx): the options in use and the options selected
    gameOptions, pendingOptions,
    \* history: the URL buildApiUrl returned last
    url,
    \* OptionsPanel state (OptionsPanel.tsx)
    optionsPanel,
    \* App's sideOpen and SidePanel's visible (SidePanel.tsx)
    sideOpen, sideVisible,
    \* ErrorPanel (ErrorPanel.tsx): the code prop, the seconds state, the
    \* countdown interval, the pending effect
    code, seconds, retryTimer, pendRetry,
    \* history: the interval callbacks run since the countdown was started
    ticks,
    \* MultipleChoice (MultipleChoice.tsx): the answers prop, the memoized
    \* shuffle, the selection
    answers, shuffled, sel,
    \* history: what onAnswer was called with
    reported,
    \* history: the completion held in finishedStats was saved
    savedCompletion

appVars == <<questions, error, gameStarted, elapsed, finishedStats, inflight>>
mpVars == <<index, score, trueScore, finished, answered, countdown, timeExpired>>
effVars == <<pendReset, pendCount, timers, hasCleanup>>
saveVars == <<storage, leaderboard, boot, now, prevBoard, lastEntry, lastWrite>>
boardVars == <<saveVars, panelSaved, savedCompletion>>
optVars == <<gameOptions, pendingOptions, url, optionsPanel>>
sideVars == <<sideOpen, sideVisible>>
errVars == <<code, seconds, retryTimer, pendRetry, ticks>>
choiceVars == <<answers, shuffled, sel, reported>>
panelVars == <<optVars, sideVars, errVars, choiceVars>>
\* What the actions of a session leave alone.
restVars == <<weighed, scored, boardVars, panelVars>>
commitRest == <<weighed, scored, saveVars, panelVars>>
vars == <<questions, error, gameStarted, elapsed, finishedStats, inflight,
          appPend, elapsedTimer,
          index, score, trueScore, finished, answered, countdown, timeExpired,
          pendReset, pendCount, timers, hasCleanup, locked,
          evt, entry, completions, weighed, accepted, scored,
          storage, leaderboard, boot, panelSaved, now, prevBoard, lastEntry,
          lastWrite, gameOptions, pendingOptions, url, optionsPanel,
          sideOpen, sideVisible, code, seconds, retryTimer, pendRetry, ticks,
          answers, shuffled, sel, reported, savedCompletion>>

\* ----------------------------------------------------------------- helpers
Max(a, b) == IF a >= b THEN a ELSE b

\* The App state a render of App closes over.
App == [questions |-> questions, error |-> error, gameStarted |-> gameStarted,
        elapsed |-> elapsed, finishedStats |-> finishedStats]

\* The MainPanel state a render of MainPanel closes over.
MP == [index |-> index, score |-> score, trueScore |-> trueScore,
       finished |-> finished, answered |-> answered, countdown |-> countdown,
       timeExpired |-> timeExpired]

\* useState initial values of MainPanel.
MPInit == [index |-> 0, score |-> 0, trueScore |-> 0, finished |-> FALSE,
           answered |-> FALSE, countdown |-> CountdownStart, timeExpired |-> FALSE]

\* ------------------------------------------------------------- App (index.tsx)
\* const loading = gameStarted && !error && !questions   ([] is truthy)
Loading(a) == a.gameStarted /\ a.error = NULL /\ a.questions = NoQuestions

\* The branch of App's render: which panel is on screen.
ViewOf(a) ==
    IF a.error # NULL THEN "error"
    ELSE IF ~a.gameStarted THEN "welcome"
    ELSE IF a.finishedStats # NoStats THEN "leaderboard"
    ELSE IF Loading(a) THEN "loading"
    ELSE "main"

View == ViewOf(App)

\* Dependencies of App's elapsed-timer effect.
TimerDeps(a) == <<a.gameStarted, a.error, a.finishedStats, Loading(a)>>

\* Whether the elapsed-timer effect, run with the values of render a, starts
\* an interval (it returns early otherwise).
TimerEffectRuns(a) ==
    ~(~a.gameStarted \/ a.error # NULL \/ a.finishedStats # NoStats \/ Loading(a))

\* App's pending effect, run with the values r of the render that scheduled
\* it: the cleanup clears the interval, the body may start a new one.
RunAppEffects(r, pend, timerOn) == IF pend THEN TimerEffectRuns(r) ELSE timerOn

\* -------------------------------------------------- MainPanel (MainPanel.tsx)
\* weight() comparing the difficulty without regard to case.
weightIgnoreCase(difficulty) ==
    IF difficulty \in {"hard", "Hard"} THEN 17
    ELSE IF difficulty \in {"medium", "MEDIUM"} THEN 13
    ELSE 10

\* weight() without the difficulty: every question weighs 1.
weightFlat(difficulty) == 10

\* function weight(difficulty), in tenths.
weight(difficulty) ==
    IF difficulty = "hard" THEN 17
    ELSE IF difficulty = "medium" THEN 13
    ELSE 10

\* The time factor without its grace period: 60 / (elapsedSeconds || 1).
AdjustedNoGrace(t, e) ==
    [num |-> t * GraceSeconds, den |-> IF e = 0 THEN 1 ELSE e]

\* The time factor inverted: max(60, elapsedSeconds || 1) / 60.
AdjustedInverted(t, e) ==
    [num |-> t * Max(GraceSeconds, IF e = 0 THEN 1 ELSE e), den |-> GraceSeconds]

\* handleNext's adjustedTrueScore = trueScore * 60 / max(60, elapsedSeconds || 1),
\* kept as a fraction of tenths.
Adjusted(t, e) ==
    [num |-> t * GraceSeconds,
     den |-> Max(GraceSeconds, IF e = 0 THEN 1 ELSE e)]

\* The reset effect: setCountdown(10); setTimeExpired(false).
ResetEffect(s) == [s EXCEPT !.countdown = CountdownStart, !.timeExpired = FALSE]

\* The cleanup the countdown effect returned: clearInterval(id) of the
\* interval its last run created (the most recent one), if it created one.
ClearInterval(tm, hc) == IF hc THEN SubSeq(tm, 1, Len(tm) - 1) ELSE tm

\* The body of the countdown effect, run with the values r of the render that
\* scheduled it, on the current state s and the active intervals tm.
CountdownEffect(r, s, tm) ==
    IF r.answered \/ r.timeExpired \/ r.finished
    THEN [s |-> s, timers |-> tm, hasCleanup |-> FALSE]
    ELSE IF r.countdown <= 0
    THEN [s |-> [s EXCEPT !.timeExpired = TRUE, !.answered = TRUE],
          timers |-> tm, hasCleanup |-> FALSE]
    ELSE [s |-> s, timers |-> Append(tm, r.index), hasCleanup |-> TRUE]

\* MainPanel's pending effects: every cleanup first, then the effect bodies in
\* the order of their declaration (reset effect, countdown effect).
RunEffects(r, pr, pc, s, tm, hc) ==
    LET tm1 == IF pc THEN ClearInterval(tm, hc) ELSE tm
        s1 == IF pr THEN ResetEffect(s) ELSE s
    IN IF pc THEN CountdownEffect(r, s1, tm1)
       ELSE [s |-> s1, timers |-> tm1, hasCleanup |-> hc]

\* Dependencies of the countdown effect.
CountDeps(s) == <<s.countdown, s.answered, s.timeExpired, s.finished>>

\* The interval callback: setCountdown((c) => c - 1).
TickUpdate(s) == [s EXCEPT !.countdown = @ - 1]

\* handleAnswer without its guard `if (answered) return`.
HandleAnswerNoGuard(s, isCorrect, qs) ==
    IF isCorrect
    THEN [s EXCEPT !.answered = TRUE, !.score = @ + 1,
                   !.trueScore = @ + weight(qs[s.index + 1])]
    ELSE [s EXCEPT !.answered = TRUE]

\* handleAnswer scoring every answer, correct or not.
HandleAnswerScoresWrong(s, isCorrect, qs) ==
    IF s.answered THEN s
    ELSE [s EXCEPT !.answered = TRUE, !.score = @ + 1,
                   !.trueScore = @ + weight(qs[s.index + 1])]

\* handleAnswer scoring a correct answer without resolving the question.
HandleAnswerKeepsAwaiting(s, isCorrect, qs) ==
    IF s.answered THEN s
    ELSE IF isCorrect
    THEN [s EXCEPT !.score = @ + 1, !.trueScore = @ + weight(qs[s.index + 1])]
    ELSE [s EXCEPT !.answered = TRUE]

\* handleAnswer(isCorrect) on the state s of the render on screen.
HandleAnswer(s, isCorrect, qs) ==
    IF s.answered THEN s
    ELSE IF isCorrect
    THEN [s EXCEPT !.answered = TRUE, !.score = @ + 1,
                   !.trueScore = @ + weight(qs[s.index + 1])]
    ELSE [s EXCEPT !.answered = TRUE]

\* handleNext's test off by one: the last question is never entered.
MoreQuestionsOffByOne(s, qs) == s.index < Len(qs) - 2

\* handleNext's first branch: more questions remain.
MoreQuestions(s, qs) == s.index < Len(qs) - 1

\* handleNext's first branch without setIndex: setAnswered(false) alone.
AdvanceUpdateKeepsIndex(s) == [s EXCEPT !.answered = FALSE]

\* setIndex((n) => n + 1); setAnswered(false).
AdvanceUpdate(s) == [s EXCEPT !.index = @ + 1, !.answered = FALSE]

\* The Next/Finish button rendered without its disabled attribute.
NextAlwaysEnabled(s) == TRUE

\* The Next/Finish button is rendered with disabled={!answered}.
NextEnabled(s) == s.answered

\* ------------------------------------------------------------ render commits
SetMP(s) ==
    /\ index' = s.index
    /\ score' = s.score
    /\ trueScore' = s.trueScore
    /\ finished' = s.finished
    /\ answered' = s.answered
    /\ countdown' = s.countdown
    /\ timeExpired' = s.timeExpired

\* MainPanel re-renders after its state became s1 (the render on screen had
\* the values of MP): the effects still pending run first, with the values
\* of the render that scheduled them; the new render schedules the effects
\* whose dependencies differ from that render's.
MPCommit(s1) ==
    LET e == RunEffects(MP, pendReset, pendCount, s1, timers, hasCleanup)
    IN /\ SetMP(e.s)
       /\ pendReset' = (e.s.index # index)
       /\ pendCount' = (CountDeps(e.s) # CountDeps(MP))
       /\ timers' = e.timers
       /\ hasCleanup' = e.hasCleanup

\* MainPanel is mounted: first render with the initial state; every effect
\* of a first render is scheduled.
MPMount ==
    /\ SetMP(MPInit)
    /\ pendReset' = TRUE
    /\ pendCount' = TRUE
    /\ timers' = <<>>
    /\ hasCleanup' = FALSE
    /\ locked' = FALSE
    /\ entry' = [score |-> 0, trueScore |-> 0]
    /\ accepted' = <<>>

\* MainPanel is unmounted: the cleanups of its effects run, its pending
\* effects and its state are dropped.
MPUnmount ==
    /\ SetMP(MPInit)
    /\ pendReset' = FALSE
    /\ pendCount' = FALSE
    /\ timers' = ClearInterval(timers, hasCleanup)
    /\ hasCleanup' = FALSE
    /\ locked' = FALSE
    /\ entry' = [score |-> 0, trueScore |-> 0]
    /\ accepted' = <<>>

\* App re-renders after its state became a1: its pending effect runs first,
\* then the panel of the new render replaces, keeps or re-renders MainPanel.
\* emitted is the number of onComplete calls of the handler that ran.
AppRender(a1, emitted) ==
    /\ questions' = a1.questions
    /\ error' = a1.error
    /\ gameStarted' = a1.gameStarted
    /\ elapsed' = a1.elapsed
    /\ finishedStats' = a1.finishedStats
    /\ elapsedTimer' = RunAppEffects(App, appPend, elapsedTimer)
    /\ appPend' = (TimerDeps(a1) # TimerDeps(App))
    /\ completions' = IF View # "main" /\ ViewOf(a1) = "main" THEN 0
                      ELSE completions + emitted
    /\ IF View # "main" /\ ViewOf(a1) = "main" THEN MPMount
       ELSE IF View = "main" /\ ViewOf(a1) # "main" THEN MPUnmount
       ELSE IF View = "main" THEN MPCommit(MP) /\ UNCHANGED <<locked, entry, accepted>>
       ELSE UNCHANGED <<mpVars, effVars, locked, entry, accepted>>

\* App re-renders after a handler other than the save: the leaderboard panel
\* keeps its saved flag while it stays mounted and is mounted with saved =
\* false. savedCompletion records that the completion held in finishedStats
\* was saved; a new completion and Play again (which clears it) reset it.
AppCommit(a1, emitted) ==
    /\ AppRender(a1, emitted)
    /\ panelSaved' = (View = "leaderboard" /\ ViewOf(a1) = "leaderboard" /\ panelSaved)
    /\ savedCompletion' = (/\ a1.finishedStats # NoStats
                           /\ a1.finishedStats = finishedStats
                           /\ savedCompletion)

\* ------------------------------------------------- leaderboard (index.tsx)
\* An absent field of a record (undefined), by the type of the field.
NoName == <<NULL>>
NoScore == -1
NoDate == -1
NoTrue == [num |-> -1, den |-> 1]

\* A number of tenths as a fraction.
Frac(n) == [num |-> n, den |-> 1]

\* The sign of x - y, for fractions with positive denominators.
FracDiff(x, y) == x.num * y.den - y.num * x.den

\* Items of a stored JSON array: a record, the value null, a number.
Rec(n, s, t, d) == [kind |-> "record", name |-> n, score |-> s, trueScore |-> t, date |-> d]
NullItem == [kind |-> "null", name |-> NoName, score |-> NoScore,
             trueScore |-> NoTrue, date |-> NoDate]
NumItem == [kind |-> "number", name |-> NoName, score |-> NoScore,
            trueScore |-> NoTrue, date |-> NoDate]

\* The localStorage slot 'quiz:leaderboard':
\*   "throws"  - getItem throws (storage access is denied),
\*   "absent"  - getItem returns null,
\*   "invalid" - the text is no JSON,
\*   "scalar"  - the text is JSON but no array (a number, an object, null),
\*   "array"   - the text is a JSON array of the items.
Slot(kind, items) == [kind |-> kind, items |-> items]

\* Player names are sequences of characters.
Ann == <<"A", "n", "n">>
Anonymous == <<"A", "n", "o", "n", "y", "m", "o", "u", "s">>
NameInputs == {<<" ">>, <<" ", "A", "l", " ">>}

\* name.trim()
RECURSIVE TrimLeft(_)
TrimLeft(n) == IF n # <<>> /\ Head(n) = " " THEN TrimLeft(Tail(n)) ELSE n
RECURSIVE TrimRight(_)
TrimRight(n) ==
    IF n # <<>> /\ n[Len(n)] = " " THEN TrimRight(SubSeq(n, 1, Len(n) - 1)) ELSE n
Trim(n) == TrimRight(TrimLeft(n))

\* LeaderboardPanel.handleSave: name.trim() || 'Anonymous'
FinalName(n) == IF Trim(n) = <<>> THEN Anonymous ELSE Trim(n)

\* The map callback of load: trueScore: e.trueScore ?? e.score ?? 0, with a
\* legacy record's trueScore defaulting to 0 instead.
LoadItemDefaultZero(e) ==
    [name |-> e.name, score |-> e.score,
     trueScore |-> IF e.trueScore # NoTrue THEN e.trueScore ELSE Frac(0),
     date |-> e.date]

\* The map callback of load: name, score and date as stored (undefined when
\* absent, also for an item that is a number), trueScore: e.trueScore ??
\* e.score ?? 0 (a score counts ten tenths).
LoadItem(e) ==
    [name |-> e.name, score |-> e.score,
     trueScore |-> IF e.trueScore # NoTrue THEN e.trueScore
                   ELSE IF e.score # NoScore THEN Frac(10 * e.score)
                   ELSE Frac(0),
     date |-> e.date]

\* The useState initializer of leaderboard. getItem is called before the
\* try block: what it throws is not caught. Inside the try block JSON.parse
\* throws on invalid text, parsed.map throws when parsed is no array, and the
\* callback throws on an item that is null; the catch returns [].
Load(st) ==
    IF st.kind = "throws" THEN [threw |-> TRUE, list |-> <<>>]
    ELSE IF st.kind \in {"absent", "invalid", "scalar"}
    THEN [threw |-> FALSE, list |-> <<>>]
    ELSE IF \E i \in DOMAIN st.items : st.items[i].kind = "null"
    THEN [threw |-> FALSE, list |-> <<>>]
    ELSE [threw |-> FALSE,
          list |-> IF st.items = <<>> THEN <<>>
                   ELSE [i \in 1..Len(st.items) |-> LoadItem(st.items[i])]]

\* The sort callback (a, b) => b.trueScore - a.trueScore || b.score - a.score,
\* as sort reads it: negative when a comes first. A difference with an
\* undefined score is NaN, which sort reads as 0.
Cmp(a, b) ==
    LET d == FracDiff(b.trueScore, a.trueScore)
    IN IF d # 0 THEN d
       ELSE IF a.score = NoScore \/ b.score = NoScore THEN 0
       ELSE b.score - a.score

\* Array.prototype.sort is stable: e goes behind every element that does not
\* come after it.
RECURSIVE InsertStable(_, _)
InsertStable(e, l) ==
    IF l = <<>> THEN <<e>>
    ELSE IF Cmp(Head(l), e) <= 0 THEN <<Head(l)>> \o InsertStable(e, Tail(l))
    ELSE <<e>> \o l

RECURSIVE SortBoard(_)
SortBoard(l) ==
    IF l = <<>> THEN <<>>
    ELSE InsertStable(l[Len(l)], SortBoard(SubSeq(l, 1, Len(l) - 1)))

\* .slice(0, 10) keeping one entry more.
TopOffByOne(l) == SubSeq(l, 1, IF Len(l) < MaxBoard + 1 THEN Len(l) ELSE MaxBoard + 1)

\* .slice(0, 10)
Top(l) == SubSeq(l, 1, IF Len(l) < MaxBoard THEN Len(l) ELSE MaxBoard)

\* The updater of saveToLeaderboard without its sort: [entry, ...prev].slice(0, 10)
SaveListNoSort(prev, e) == Top(<<e>> \o prev)

\* The updater of saveToLeaderboard with the entry behind the previous
\* entries: [...prev, entry].sort(...).slice(0, 10)
SaveListAppend(prev, e) == Top(SortBoard(prev \o <<e>>))

\* The updater of saveToLeaderboard: [entry, ...prev].sort(...).slice(0, 10)
SaveList(prev, e) == Top(SortBoard(<<e>> \o prev))

\* JSON.stringify(next) of the first writer of the leaderboard, whose entries
\* had no trueScore.
StringifyNoTrueScore(list) ==
    Slot("array",
         IF list = <<>> THEN <<>>
         ELSE [i \in 1..Len(list) |->
                 Rec(list[i].name, list[i].score, NoTrue, list[i].date)])

\* JSON.stringify(next): a field that is undefined is left out.
Stringify(list) ==
    Slot("array",
         IF list = <<>> THEN <<>>
         ELSE [i \in 1..Len(list) |->
                 Rec(list[i].name, list[i].score, list[i].trueScore, list[i].date)])

\* A setItem that removes the item when it throws.
WriteSlotClearsOnFailure(st, next, written) ==
    IF written THEN Stringify(next) ELSE Slot("absent", <<>>)

\* try { localStorage.setItem('leaderboard', JSON.stringify(next)) } catch {}
\* on the slot st: the slot keeps its content when setItem throws.
WriteSlot(st, next, written) == IF written THEN Stringify(next) ELSE st

\* The entry saveToLeaderboard builds at time t.
NewEntry(name, stats, t) ==
    [name |-> name, score |-> stats.score, trueScore |-> stats.trueScore, date |-> t]

NoEntry == [name |-> NoName, score |-> NoScore, trueScore |-> NoTrue, date |-> NoDate]

\* --------------------------------------------- game options (index.tsx)
\* useState initial value of gameOptions; pendingOptions starts as the same.
DefaultOptions == [amount |-> 5, category |-> 0, difficulty |-> "any", type |-> "any"]

\* A parameter of the query, as URLSearchParams holds it: two strings.
Param(k, v) == [key |-> k, value |-> v]
\* No URL was built yet.
NoUrl == <<Param(NULL, NULL)>>

\* buildApiUrl appending the category whatever its value.
buildApiUrlAnyCategory(opts) ==
    <<Param("amount", ToString(opts.amount)),
      Param("category", ToString(opts.category))>>
    \o (IF opts.difficulty # "any" THEN <<Param("difficulty", opts.difficulty)>> ELSE <<>>)
    \o (IF opts.type # "any" THEN <<Param("type", opts.type)>> ELSE <<>>)

\* buildApiUrl(opts): the parameters of the query, in the order they are set.
\* String(n) of a number is its decimal text.
buildApiUrl(opts) ==
    <<Param("amount", ToString(opts.amount))>>
    \o (IF opts.category > 0
        THEN <<Param("category", ToString(opts.category))>> ELSE <<>>)
    \o (IF opts.difficulty # "any" THEN <<Param("difficulty", opts.difficulty)>> ELSE <<>>)
    \o (IF opts.type # "any" THEN <<Param("type", opts.type)>> ELSE <<>>)

\* --------------------------------------- OptionsPanel (OptionsPanel.tsx)
\* useState initial values of OptionsPanel.
OptionsPanelInit == [amount |-> 3, category |-> 0, difficulty |-> "any",
                     typeBoolean |-> FALSE, typeMultiple |-> FALSE]

\* What the controls of the panel can be set to: slider positions (3..30),
\* ids of the category menu (0 is "any"), the difficulty menu.
AmountInputs == {3, 5, 10, 30}
CategoryInputs == {0, 9, 32}
DifficultyInputs == {"any", "easy", "medium", "hard"}
TypeInputs == {"any", "multiple", "boolean"}

\* getTypeValue() taking both checkboxes checked for Multiple Choice.
getTypeValueBothMultiple(p) ==
    IF p.typeMultiple THEN "multiple"
    ELSE IF p.typeBoolean THEN "boolean"
    ELSE "any"

\* getTypeValue() on the state p of the render on screen.
getTypeValue(p) ==
    IF p.typeBoolean /\ p.typeMultiple THEN "any"
    ELSE IF p.typeBoolean THEN "boolean"
    ELSE IF p.typeMultiple THEN "multiple"
    ELSE "any"

\* The options object updateOptions builds from the state p of the render on
\* screen, before the partial is merged in.
ClosureOptions(p) ==
    [amount |-> p.amount, category |-> p.category, difficulty |-> p.difficulty,
     type |-> getTypeValue(p)]

\* ----------------------------------------------- ErrorPanel (ErrorPanel.tsx)
RetrySeconds == 6

\* const errorCode = error?.match?.(/^HTTP\s+(\d+)/)?.[1] || error
errorCode(msg) ==
    IF msg = "HTTP 429" THEN "429"
    ELSE IF msg = "HTTP 500" THEN "500"
    ELSE msg

\* The messages a failed fetch sets: a status that is not ok, what fetch
\* itself throws, and the fallback for an empty message.
FailureMessages == {"HTTP 429", "HTTP 500", "Failed to fetch", "Fetch error"}

isRateLimited(c) == c = "429"

\* const canRetry = !isRateLimited || seconds === 0
canRetry(c, s) == ~isRateLimited(c) \/ s = 0

\* The updater of the interval callback: the new seconds and whether it
\* cleared the interval.
SecondsUpdate(s) ==
    IF s <= 1 THEN [seconds |-> 0, cleared |-> TRUE]
    ELSE [seconds |-> s - 1, cleared |-> FALSE]

\* ErrorPanel's effect, run with the code r of the render that scheduled it,
\* on the seconds s and the interval tm: the cleanup of its last run clears
\* the interval; the body, for a rate-limited code, sets the seconds to 6 and
\* starts an interval.
RetryEffect(r, s, tm, n) ==
    IF isRateLimited(r)
    THEN [seconds |-> RetrySeconds, retryTimer |-> TRUE, ticks |-> 0]
    ELSE [seconds |-> s, retryTimer |-> FALSE, ticks |-> n]

\* ------------------------------------- MultipleChoice (MultipleChoice.tsx)
\* sel === null
NoSel == -1

\* answers.map((t, i) => ({ t, i }))
Items(a) == IF a = <<>> THEN <<>> ELSE [k \in 1..Len(a) |-> [t |-> a[k], i |-> k - 1]]

\* [a[i], a[j]] = [a[j], a[i]] (positions counted from 1)
Swap(a, i, j) == [a EXCEPT ![i] = a[j], ![j] = a[i]]

\* The loop of shuffle from position i down (positions counted from 1): every
\* array the draws of Math.random() can leave.
RECURSIVE ShuffleFrom(_, _)
ShuffleFrom(a, i) ==
    IF i < 2 THEN {a}
    ELSE UNION {ShuffleFrom(Swap(a, i, j), i - 1) : j \in 1..i}

\* shuffle(arr): the arrays it can return (arr itself is copied, not changed).
shuffle(arr) == ShuffleFrom(arr, Len(arr))

\* The correct option taken to be the first one displayed.
correctIndexFirst(sh) == 0

\* shuffled.findIndex((s) => s.i === 0), an index counted from 0, or -1.
correctIndex(sh) ==
    IF \E k \in 1..Len(sh) : sh[k].i = 0
    THEN (CHOOSE k \in 1..Len(sh) :
            sh[k].i = 0 /\ \A m \in 1..(k - 1) : sh[m].i # 0) - 1
    ELSE -1

\* ---------------------------------------------- the panels, not on screen
OptionsIdle ==
    /\ gameOptions = DefaultOptions
    /\ pendingOptions = DefaultOptions
    /\ url = NoUrl
    /\ optionsPanel = OptionsPanelInit

SideIdle == sideOpen = FALSE /\ sideVisible = FALSE

ErrorIdle ==
    /\ code = NULL
    /\ seconds = 0
    /\ retryTimer = FALSE
    /\ pendRetry = FALSE
    /\ ticks = 0

ChoiceIdle ==
    /\ answers = <<>>
    /\ shuffled = <<>>
    /\ sel = NoSel
    /\ reported = <<>>

PanelsIdle == OptionsIdle /\ SideIdle /\ ErrorIdle /\ ChoiceIdle

\* ------------------------------------------------------------------- Init
Init ==
    /\ questions = NoQuestions
    /\ error = NULL
    /\ gameStarted = FALSE
    /\ elapsed = 0
    /\ finishedStats = NoStats
    /\ inflight = 0
    /\ appPend = TRUE
    /\ elapsedTimer = FALSE
    /\ index = 0 /\ score = 0 /\ trueScore = 0 /\ finished = FALSE
    /\ answered = FALSE /\ countdown = CountdownStart /\ timeExpired = FALSE
    /\ pendReset = FALSE /\ pendCount = FALSE
    /\ timers = <<>> /\ hasCleanup = FALSE
    /\ locked = FALSE
    /\ evt = "init"
    /\ entry = [score |-> 0, trueScore |-> 0]
    /\ completions = 0
    /\ weighed = <<>>
    /\ accepted = <<>>
    /\ scored = <<>>
    /\ storage = Slot("absent", <<>>)
    /\ leaderboard = <<>>
    /\ boot = "mounted"
    /\ panelSaved = FALSE
    /\ savedCompletion = FALSE
    /\ now = ClockStart
    /\ prevBoard = <<>>
    /\ lastEntry = NoEntry
    /\ lastWrite = "none"
    /\ PanelsIdle

\* ------------------------------------------------------------ App actions
\* fetchQuestions up to its await: setError(null); setQuestions(null).
FetchBegin(a) == [a EXCEPT !.error = NULL, !.questions = NoQuestions]

\* applyOptionsAndFetch(pendingOptions) up to the await of fetchQuestions:
\* setGameOptions(opts); the request for buildApiUrl(opts) is sent.
ApplyOptionsAndFetch ==
    /\ gameOptions' = pendingOptions
    /\ url' = buildApiUrl(pendingOptions)
    /\ inflight' = inflight + 1

\* What a handler that starts a fetch leaves alone.
fetchRest == <<weighed, scored, saveVars, pendingOptions, optionsPanel,
               sideVisible, errVars, choiceVars>>

\* handleStart, from the welcome panel.
Start ==
    /\ View = "welcome"
    /\ AppCommit([FetchBegin(App) EXCEPT !.gameStarted = TRUE, !.elapsed = 0], 0)
    /\ ApplyOptionsAndFetch
    /\ evt' = "start"
    /\ UNCHANGED <<sideOpen, fetchRest>>

\* handleRetry, from the error panel.
Retry ==
    /\ View = "error"
    /\ AppCommit([FetchBegin(App) EXCEPT !.gameStarted = TRUE, !.elapsed = 0], 0)
    /\ ApplyOptionsAndFetch
    /\ sideOpen' = FALSE
    /\ evt' = "retry"
    /\ UNCHANGED fetchRest

\* fetchQuestions after its await, the fetch succeeded with one of lists:
\* setQuestions(parsed).
FetchOkFrom(lists) ==
    /\ inflight > 0
    /\ \E qs \in lists : AppCommit([App EXCEPT !.questions = qs], 0)
    /\ inflight' = inflight - 1
    /\ evt' = "fetchOk"
    /\ UNCHANGED commitRest

FetchOk == FetchOkFrom(QuestionLists)

\* fetchQuestions after its await, the fetch failed: setError(message).
FetchFail ==
    /\ inflight > 0
    /\ \E msg \in ErrorMessages : AppCommit([App EXCEPT !.error = msg], 0)
    /\ inflight' = inflight - 1
    /\ evt' = "fetchFail"
    /\ UNCHANGED commitRest

\* handlePlayAgain, from the leaderboard panel.
PlayAgain ==
    /\ View = "leaderboard"
    /\ AppCommit([App EXCEPT !.finishedStats = NoStats, !.gameStarted = FALSE,
                             !.elapsed = 0], 0)
    /\ evt' = "playAgain"
    /\ UNCHANGED <<inflight, commitRest>>

\* The elapsed-timer interval fires: setElapsed((t) => t + 1).
ElapsedTick ==
    /\ elapsedTimer
    /\ elapsed < MaxElapsed
    /\ AppCommit([App EXCEPT !.elapsed = @ + 1], 0)
    /\ evt' = "elapsed"
    /\ UNCHANGED <<inflight, commitRest>>

\* ------------------------------------------------------ MainPanel actions
\* MainPanel's render reads a field of questions[index], which is undefined
\* when a shorter list replaced the list the index was reached on: the render
\* throws and nothing of it is on screen.
RenderThrows == View = "main" /\ questions # <<>> /\ index >= Len(questions)

\* The answer buttons and the Next button are on screen.
QuestionShown == View = "main" /\ questions # <<>> /\ ~RenderThrows

\* A countdown interval fires.
CountdownTick ==
    /\ timers # <<>>
    /\ MPCommit(TickUpdate(MP))
    /\ evt' = "tick"
    /\ UNCHANGED <<appVars, appPend, elapsedTimer, locked, entry, accepted,
                   completions, restVars>>

\* An answer button is clicked. The answer component ignores the click once
\* it is locked; otherwise it locks and calls handleAnswer, which returns
\* early (no state update, no re-render) when the question is answered.
SubmitAnswer ==
    /\ QuestionShown
    /\ \E isCorrect \in BOOLEAN :
        IF locked
        THEN /\ evt' = "answerLocked"
             /\ UNCHANGED <<mpVars, effVars, locked, accepted>>
        ELSE /\ locked' = TRUE
             /\ IF HandleAnswer(MP, isCorrect, questions) = MP
                THEN /\ evt' = "answerIgnored"
                     /\ UNCHANGED <<mpVars, effVars, accepted>>
                ELSE /\ evt' = IF isCorrect THEN "answerCorrect" ELSE "answerWrong"
                     /\ accepted' = Append(accepted, isCorrect)
                     /\ MPCommit(HandleAnswer(MP, isCorrect, questions))
    /\ UNCHANGED <<appVars, appPend, elapsedTimer, entry, completions, restVars>>

\* The Next/Finish button is clicked. A disabled button dispatches no click.
ClickNext ==
    /\ QuestionShown
    /\ IF ~NextEnabled(MP)
       THEN /\ evt' = "nextDisabled"
            /\ UNCHANGED <<appVars, appPend, elapsedTimer, mpVars, effVars,
                           locked, entry, accepted, completions, panelSaved,
                           savedCompletion>>
       ELSE IF MoreQuestions(MP, questions)
       THEN /\ evt' = "next"
            /\ MPCommit(AdvanceUpdate(MP))
            /\ locked' = FALSE
            /\ entry' = [score |-> score, trueScore |-> trueScore]
            /\ UNCHANGED <<appVars, appPend, elapsedTimer, accepted, completions,
                           panelSaved, savedCompletion>>
       ELSE /\ evt' = "finish"
            /\ AppCommit([App EXCEPT !.finishedStats =
                    [score |-> score, trueScore |-> Adjusted(trueScore, elapsed)]], 1)
    /\ UNCHANGED <<inflight, commitRest>>

\* The deferred effects of the last render run (all components).
FlushEffects ==
    /\ pendReset \/ pendCount \/ appPend
    /\ MPCommit(MP)
    /\ elapsedTimer' = RunAppEffects(App, appPend, elapsedTimer)
    /\ appPend' = FALSE
    /\ evt' = "flush"
    /\ UNCHANGED <<appVars, locked, entry, accepted, completions, restVars>>

Next ==
    \/ Start
    \/ Retry
    \/ FetchOk
    \/ FetchFail
    \/ PlayAgain
    \/ ElapsedTick
    \/ CountdownTick
    \/ SubmitAnswer
    \/ ClickNext
    \/ FlushEffects

Spec == Init /\ [][Next]_vars

\* The application under fair scheduling: an interval that is set fires, and
\* the effects scheduled by a render run. Nothing obliges the user to act.
SpecFair == Spec /\ WF_vars(CountdownTick) /\ WF_vars(FlushEffects)

\* ------------------------------------------------- weight(), applied alone
\* weight() is a pure function of its argument: this specification draws
\* lists of argument strings and applies weight() to them one by one,
\* recording each argument with its result.
InitWeight ==
    /\ questions \in SeqsUpTo(WeightInputs, MaxWeightList)
    /\ error = NULL
    /\ gameStarted = FALSE
    /\ elapsed = 0
    /\ finishedStats = NoStats
    /\ inflight = 0
    /\ appPend = FALSE
    /\ elapsedTimer = FALSE
    /\ index = 0 /\ score = 0 /\ trueScore = 0 /\ finished = FALSE
    /\ answered = FALSE /\ countdown = CountdownStart /\ timeExpired = FALSE
    /\ pendReset = FALSE /\ pendCount = FALSE
    /\ timers = <<>> /\ hasCleanup = FALSE
    /\ locked = FALSE
    /\ evt = "init"
    /\ entry = [score |-> 0, trueScore |-> 0]
    /\ completions = 0
    /\ weighed = <<>>
    /\ accepted = <<>>
    /\ scored = <<>>
    /\ storage = Slot("absent", <<>>)
    /\ leaderboard = <<>>
    /\ boot = "mounted"
    /\ panelSaved = FALSE
    /\ savedCompletion = FALSE
    /\ now = ClockStart
    /\ prevBoard = <<>>
    /\ lastEntry = NoEntry
    /\ lastWrite = "none"
    /\ PanelsIdle

ApplyWeight ==
    /\ index < Len(questions)
    /\ weighed' = Append(weighed, [d |-> questions[index + 1],
                                   w |-> weight(questions[index + 1])])
    /\ index' = index + 1
    /\ evt' = "weight"
    /\ UNCHANGED <<appVars, appPend, elapsedTimer, score, trueScore, finished,
                   answered, countdown, timeExpired, effVars, locked, entry,
                   completions, accepted, scored, boardVars, panelVars>>

NextWeight == ApplyWeight

SpecWeight == InitWeight /\ [][NextWeight]_vars

\* ------------------------------------------- the leaderboard, from storage
\* The life of the leaderboard: App is mounted on a storage slot of any
\* content (load), then sessions complete, their scores are saved from the
\* leaderboard panel, and the player plays again. A session is abridged to
\* its completion event, with the stats drawn from StatsInputs.
StoredItems ==
    {Rec(Ann, 2, Frac(27), 1),
     Rec(<<"B">>, 1, NoTrue, 2),
     Rec(<<"C">>, 0, Frac(0), 3),
     Rec(NoName, NoScore, NoTrue, NoDate),
     NullItem,
     NumItem}

\* A stored list of n records, best first, and the same list worst first.
LongDesc(n) ==
    [i \in 1..n |-> Rec(Ann, IF i = n THEN 0 ELSE 1, Frac(5 * (n - i)), i)]
LongAsc(n) ==
    [i \in 1..n |-> Rec(Ann, IF i = 1 THEN 0 ELSE 1, Frac(5 * (i - 1)), i)]
\* A stored list of n records of one score and one weighted score, told
\* apart by their dates.
LongTied(n) == [i \in 1..n |-> Rec(Ann, 0, Frac(0), i)]

StoredContents ==
    {Slot("throws", <<>>), Slot("absent", <<>>), Slot("invalid", <<>>),
     Slot("scalar", <<>>)}
    \cup {Slot("array", l) : l \in SeqsUpTo(StoredItems, MaxShortList)}
    \cup {Slot("array", LongDesc(n)) : n \in (MaxBoard - 1)..MaxStored}
    \cup {Slot("array", LongAsc(n)) : n \in (MaxBoard - 1)..MaxStored}
    \cup {Slot("array", LongTied(n)) : n \in (MaxBoard - 1)..MaxStored}

\* The (score, trueScore) pairs of the completion events.
StatsInputs ==
    {[score |-> 0, trueScore |-> Adjusted(0, 30)],
     [score |-> 2, trueScore |-> Adjusted(27, 30)],
     [score |-> 3, trueScore |-> Adjusted(40, 120)]}

InitBoard ==
    /\ storage \in StoredContents
    /\ boot = "unmounted"
    /\ leaderboard = <<>>
    /\ panelSaved = FALSE
    /\ savedCompletion = FALSE
    /\ now = ClockStart
    /\ prevBoard = <<>>
    /\ lastEntry = NoEntry
    /\ lastWrite = "none"
    /\ PanelsIdle
    /\ questions = NoQuestions
    /\ error = NULL
    /\ gameStarted = FALSE
    /\ elapsed = 0
    /\ finishedStats = NoStats
    /\ inflight = 0
    /\ appPend = FALSE
    /\ elapsedTimer = FALSE
    /\ index = 0 /\ score = 0 /\ trueScore = 0 /\ finished = FALSE
    /\ answered = FALSE /\ countdown = CountdownStart /\ timeExpired = FALSE
    /\ pendReset = FALSE /\ pendCount = FALSE
    /\ timers = <<>> /\ hasCleanup = FALSE
    /\ locked = FALSE
    /\ evt = "init"
    /\ entry = [score |-> 0, trueScore |-> 0]
    /\ completions = 0
    /\ weighed = <<>>
    /\ accepted = <<>>
    /\ scored = <<>>

sessionVars == <<questions, error, elapsed, inflight, appPend, elapsedTimer,
                 mpVars, effVars, locked, entry, completions, weighed,
                 accepted, scored, panelVars>>

\* App is mounted: the initializer of the leaderboard state runs. What it
\* throws leaves App unmounted for good.
BoardMount ==
    /\ boot = "unmounted"
    /\ LET r == Load(storage)
       IN /\ boot' = IF r.threw THEN "crashed" ELSE "mounted"
          /\ leaderboard' = r.list
    /\ savedCompletion' = savedCompletion
    /\ evt' = "load"
    /\ UNCHANGED <<storage, panelSaved, now, prevBoard, lastEntry, lastWrite,
                   gameStarted, finishedStats, sessionVars>>

\* A session completes: handleComplete(score, trueScore); the leaderboard
\* panel is mounted with saved = false.
BoardComplete ==
    /\ boot = "mounted"
    /\ View = "welcome"
    /\ now - ClockStart < MaxSaves
    /\ \E st \in StatsInputs : finishedStats' = st
    /\ gameStarted' = TRUE
    /\ panelSaved' = FALSE
    /\ savedCompletion' = FALSE
    /\ evt' = "complete"
    /\ UNCHANGED <<storage, leaderboard, boot, now, prevBoard, lastEntry,
                   lastWrite, sessionVars>>

\* The Save button of the leaderboard panel (rendered while saved is false):
\* handleSave, handleSaveScore, saveToLeaderboard. setItem may throw; that is
\* swallowed.
BoardSave ==
    /\ boot = "mounted"
    /\ View = "leaderboard"
    /\ ~panelSaved
    /\ \E nm \in NameInputs, written \in BOOLEAN :
        LET e == NewEntry(FinalName(nm), finishedStats, now)
            next == SaveList(leaderboard, e)
        IN /\ leaderboard' = next
           /\ storage' = WriteSlot(storage, next, written)
           /\ lastWrite' = IF written THEN "ok" ELSE "failed"
           /\ lastEntry' = e
    /\ prevBoard' = leaderboard
    /\ panelSaved' = TRUE
    /\ now' = now + 1
    /\ savedCompletion' = TRUE
    /\ evt' = "save"
    /\ UNCHANGED <<boot, gameStarted, finishedStats, sessionVars>>

\* handlePlayAgain; the leaderboard panel is unmounted.
BoardPlayAgain ==
    /\ boot = "mounted"
    /\ View = "leaderboard"
    /\ finishedStats' = NoStats
    /\ gameStarted' = FALSE
    /\ panelSaved' = FALSE
    /\ savedCompletion' = FALSE
    /\ evt' = "playAgain"
    /\ UNCHANGED <<storage, leaderboard, boot, now, prevBoard, lastEntry,
                   lastWrite, sessionVars>>

NextBoard == BoardMount \/ BoardComplete \/ BoardSave \/ BoardPlayAgain

SpecBoard == InitBoard /\ [][NextBoard]_vars

\* ------------------------------------------------- a session, by its clicks
\* A session from the mount of MainPanel to its completion, with the elapsed
\* seconds drawn from ElapsedInputs: the player answers and advances (the
\* countdown intervals are created and cleared but do not fire).
SessionDifficulties == {"easy", "medium", "hard"}
ElapsedInputs == {0, 30, 60, 61, 120}
SessionLists == SeqsUpTo(SessionDifficulties, MaxSessionQuestions) \ {<<>>}

InitSession ==
    /\ questions \in SessionLists
    /\ elapsed \in ElapsedInputs
    /\ error = NULL
    /\ gameStarted = TRUE
    /\ finishedStats = NoStats
    /\ inflight = 0
    /\ appPend = TRUE
    /\ elapsedTimer = FALSE
    /\ index = 0 /\ score = 0 /\ trueScore = 0 /\ finished = FALSE
    /\ answered = FALSE /\ countdown = CountdownStart /\ timeExpired = FALSE
    /\ pendReset = TRUE /\ pendCount = TRUE
    /\ timers = <<>> /\ hasCleanup = FALSE
    /\ locked = FALSE
    /\ evt = "fetchOk"
    /\ entry = [score |-> 0, trueScore |-> 0]
    /\ completions = 0
    /\ weighed = <<>>
    /\ accepted = <<>>
    /\ scored = <<>>
    /\ storage = Slot("absent", <<>>)
    /\ leaderboard = <<>>
    /\ boot = "mounted"
    /\ panelSaved = FALSE
    /\ savedCompletion = FALSE
    /\ now = ClockStart
    /\ prevBoard = <<>>
    /\ lastEntry = NoEntry
    /\ lastWrite = "none"
    /\ PanelsIdle

NextSession == SubmitAnswer \/ ClickNext \/ FlushEffects

SpecSession == InitSession /\ [][NextSession]_vars

\* ------------------------------------------- the time factor, applied alone
\* handleNext's adjusted score is a pure function of the running weighted
\* score and the elapsed seconds: this specification draws a running score
\* and applies the function to elapsed values one by one, recording each
\* result.
RunningInputs == {0, 10, 13, 27, 40}
FactorElapsed == {0, 1, 59, 60, 61, 62, 90, 120, 121, 3600}

InitFactor ==
    /\ trueScore \in RunningInputs
    /\ questions = NoQuestions
    /\ error = NULL
    /\ gameStarted = FALSE
    /\ elapsed = 0
    /\ finishedStats = NoStats
    /\ inflight = 0
    /\ appPend = FALSE
    /\ elapsedTimer = FALSE
    /\ index = 0 /\ score = 0 /\ finished = FALSE
    /\ answered = FALSE /\ countdown = CountdownStart /\ timeExpired = FALSE
    /\ pendReset = FALSE /\ pendCount = FALSE
    /\ timers = <<>> /\ hasCleanup = FALSE
    /\ locked = FALSE
    /\ evt = "init"
    /\ entry = [score |-> 0, trueScore |-> 0]
    /\ completions = 0
    /\ weighed = <<>>
    /\ accepted = <<>>
    /\ scored = <<>>
    /\ storage = Slot("absent", <<>>)
    /\ leaderboard = <<>>
    /\ boot = "mounted"
    /\ panelSaved = FALSE
    /\ savedCompletion = FALSE
    /\ now = ClockStart
    /\ prevBoard = <<>>
    /\ lastEntry = NoEntry
    /\ lastWrite = "none"
    /\ PanelsIdle

ApplyAdjusted ==
    /\ Len(scored) < MaxScored
    /\ \E e \in FactorElapsed :
        /\ elapsed' = e
        /\ scored' = Append(scored, [t |-> trueScore, e |-> e,
                                     f |-> Adjusted(trueScore, e)])
    /\ evt' = "factor"
    /\ UNCHANGED <<questions, error, gameStarted, finishedStats, inflight,
                   appPend, elapsedTimer, mpVars, effVars, locked, entry,
                   completions, weighed, accepted, boardVars, panelVars>>

NextFactor == ApplyAdjusted

SpecFactor == InitFactor /\ [][NextFactor]_vars

\* ------------------------------------------- the application, with restart
\* The application with its side panel: the options button of MainPanel's
\* top row opens it, a click on its backdrop closes it, and its Restart Game
\* button starts a new fetch whatever App is showing. The panel stays on
\* screen, its buttons included, until the closing animation has ended, so a
\* second click on Restart can follow the first; requests are not cancelled
\* and their responses are applied in the order they arrive.
\* The lists a fetch delivers here: the difficulties play no part.
AppLists == {<<>>, <<"easy">>, <<"easy", "hard">>}

FetchOkApp == FetchOkFrom(AppLists)

sideRest == <<weighed, scored, saveVars, optVars, sideVisible, errVars, choiceVars>>

\* onToggleSidePanel: setSideOpen(true); App re-renders.
OpenSide ==
    /\ QuestionShown
    /\ ~sideOpen
    /\ AppCommit(App, 0)
    /\ sideOpen' = TRUE
    /\ evt' = "openSide"
    /\ UNCHANGED <<inflight, sideRest>>

\* onClose, a click on the backdrop: setSideOpen(false); App re-renders.
CloseSide ==
    /\ sideVisible
    /\ sideOpen
    /\ AppCommit(App, 0)
    /\ sideOpen' = FALSE
    /\ evt' = "closeSide"
    /\ UNCHANGED <<inflight, sideRest>>

\* SidePanel's effect with open = true: setVisible(true).
SideShow ==
    /\ sideOpen
    /\ ~sideVisible
    /\ sideVisible' = TRUE
    /\ evt' = "sideShow"
    /\ UNCHANGED <<appVars, appPend, elapsedTimer, mpVars, effVars, locked, entry,
                   accepted, completions, weighed, scored, boardVars, optVars,
                   sideOpen, errVars, choiceVars>>

\* SidePanel's effect with open = false, and the timeout it sets:
\* setVisible(false) after the closing animation.
SideHide ==
    /\ ~sideOpen
    /\ sideVisible
    /\ sideVisible' = FALSE
    /\ evt' = "sideHide"
    /\ UNCHANGED <<appVars, appPend, elapsedTimer, mpVars, effVars, locked, entry,
                   accepted, completions, weighed, scored, boardVars, optVars,
                   sideOpen, errVars, choiceVars>>

\* handleRestart, from the Restart Game button of the side panel.
Restart ==
    /\ sideVisible
    /\ inflight < MaxInflight
    /\ AppCommit([FetchBegin(App) EXCEPT !.gameStarted = TRUE, !.elapsed = 0], 0)
    /\ ApplyOptionsAndFetch
    /\ sideOpen' = FALSE
    /\ evt' = "restart"
    /\ UNCHANGED fetchRest

NextApp ==
    \/ Start
    \/ Retry
    \/ FetchOkApp
    \/ FetchFail
    \/ PlayAgain
    \/ ElapsedTick
    \/ CountdownTick
    \/ SubmitAnswer
    \/ ClickNext
    \/ FlushEffects
    \/ OpenSide
    \/ CloseSide
    \/ SideShow
    \/ SideHide
    \/ Restart

SpecApp == Init /\ [][NextApp]_vars

\* ------------------------------------------- the application with its saves
\* The name typed into the leaderboard panel: the field is left blank.
SaveNames == {<<" ">>}

\* The Save button of the leaderboard panel (rendered while saved is false):
\* handleSave, handleSaveScore, saveToLeaderboard, setSaved(true); App
\* re-renders with the new leaderboard. MaxSaves caps the clock.
SaveScore ==
    /\ boot = "mounted"
    /\ View = "leaderboard"
    /\ ~panelSaved
    /\ now - ClockStart < MaxSaves
    /\ \E nm \in SaveNames, written \in BOOLEAN :
        LET e == NewEntry(FinalName(nm), finishedStats, now)
            next == SaveList(leaderboard, e)
        IN /\ leaderboard' = next
           /\ storage' = WriteSlot(storage, next, written)
           /\ lastWrite' = IF written THEN "ok" ELSE "failed"
           /\ lastEntry' = e
    /\ AppRender(App, 0)
    /\ prevBoard' = leaderboard
    /\ panelSaved' = TRUE
    /\ savedCompletion' = TRUE
    /\ now' = now + 1
    /\ evt' = "save"
    /\ UNCHANGED <<boot, inflight, weighed, scored, panelVars>>

\* The responses of the sessions saved: one question.
SaveLists == {<<"easy">>}
FetchOkSave == FetchOkFrom(SaveLists)

NextSave ==
    \/ Start \/ Retry \/ FetchOkSave \/ FetchFail \/ PlayAgain
    \/ ElapsedTick \/ CountdownTick \/ SubmitAnswer \/ ClickNext \/ FlushEffects
    \/ OpenSide \/ CloseSide \/ SideShow \/ SideHide \/ Restart
    \/ SaveScore

SpecSave == Init /\ [][NextSave]_vars

\* --------------------------------------------- the panels, applied alone
\* The session and the leaderboard as the specifications of a single panel
\* or function leave them: App on its welcome panel, nothing stored.
SessionIdle ==
    /\ questions = NoQuestions
    /\ error = NULL
    /\ gameStarted = FALSE
    /\ elapsed = 0
    /\ finishedStats = NoStats
    /\ inflight = 0
    /\ appPend = FALSE
    /\ elapsedTimer = FALSE
    /\ index = 0 /\ score = 0 /\ trueScore = 0 /\ finished = FALSE
    /\ answered = FALSE /\ countdown = CountdownStart /\ timeExpired = FALSE
    /\ pendReset = FALSE /\ pendCount = FALSE
    /\ timers = <<>> /\ hasCleanup = FALSE
    /\ locked = FALSE
    /\ evt = "init"
    /\ entry = [score |-> 0, trueScore |-> 0]
    /\ completions = 0
    /\ weighed = <<>>
    /\ accepted = <<>>
    /\ scored = <<>>

BoardIdle ==
    /\ storage = Slot("absent", <<>>)
    /\ leaderboard = <<>>
    /\ boot = "mounted"
    /\ panelSaved = FALSE
    /\ savedCompletion = FALSE
    /\ now = ClockStart
    /\ prevBoard = <<>>
    /\ lastEntry = NoEntry
    /\ lastWrite = "none"

\* The session state but the last operation, and the leaderboard.
idleVars == <<appVars, appPend, elapsedTimer, mpVars, effVars, locked, entry,
              completions, weighed, accepted, scored, boardVars>>

\* ------------------------------------------------ buildApiUrl, applied alone
\* buildApiUrl is a pure function of the options it is given: this
\* specification draws the pending options from what the options panel and
\* the initial state can deliver and applies the function as
\* applyOptionsAndFetch does.
OptionInputs ==
    [amount : AmountInputs, category : CategoryInputs,
     difficulty : DifficultyInputs, type : TypeInputs]

InitUrl ==
    /\ SessionIdle /\ BoardIdle /\ SideIdle /\ ErrorIdle /\ ChoiceIdle
    /\ pendingOptions \in OptionInputs
    /\ gameOptions = DefaultOptions
    /\ url = NoUrl
    /\ optionsPanel = OptionsPanelInit

ApplyBuildApiUrl ==
    /\ gameOptions' = pendingOptions
    /\ url' = buildApiUrl(pendingOptions)
    /\ evt' = "url"
    /\ UNCHANGED <<idleVars, inflight, pendingOptions, optionsPanel, sideVars,
                   errVars, choiceVars>>

NextUrl == ApplyBuildApiUrl

SpecUrl == InitUrl /\ [][NextUrl]_vars

\* -------------------------------------------- the options panel, by itself
\* OptionsPanel mounted in the side panel, its controls operated one by one;
\* App's handleOptionsChange stores what the panel delivers in pendingOptions.
optionsRest == <<idleVars, inflight, gameOptions, url, sideVars, errVars, choiceVars>>

InitOptions ==
    /\ SessionIdle /\ BoardIdle /\ SideIdle /\ ErrorIdle /\ ChoiceIdle
    /\ OptionsIdle

\* handleAmountChange: setAmount(v); updateOptions({ amount: v }).
AmountChange ==
    /\ \E v \in AmountInputs :
        /\ optionsPanel' = [optionsPanel EXCEPT !.amount = v]
        /\ pendingOptions' = [ClosureOptions(optionsPanel) EXCEPT !.amount = v]
    /\ evt' = "amountChange"
    /\ UNCHANGED optionsRest

\* handleCategoryChange: setCategory(v); updateOptions({ category: v }).
CategoryChange ==
    /\ \E v \in CategoryInputs :
        /\ optionsPanel' = [optionsPanel EXCEPT !.category = v]
        /\ pendingOptions' = [ClosureOptions(optionsPanel) EXCEPT !.category = v]
    /\ evt' = "categoryChange"
    /\ UNCHANGED optionsRest

\* handleDifficultyChange: setDifficulty(v); updateOptions({ difficulty: v }).
DifficultyChange ==
    /\ \E v \in DifficultyInputs :
        /\ optionsPanel' = [optionsPanel EXCEPT !.difficulty = v]
        /\ pendingOptions' = [ClosureOptions(optionsPanel) EXCEPT !.difficulty = v]
    /\ evt' = "difficultyChange"
    /\ UNCHANGED optionsRest

\* handleTypeChange(typeKey): the checkbox state is toggled; updateOptions is
\* not called.
TypeChange ==
    /\ \E typeKey \in {"boolean", "multiple"} :
        optionsPanel' = IF typeKey = "boolean"
                        THEN [optionsPanel EXCEPT !.typeBoolean = ~@]
                        ELSE [optionsPanel EXCEPT !.typeMultiple = ~@]
    /\ evt' = "typeChange"
    /\ UNCHANGED <<pendingOptions, optionsRest>>

NextOptions == AmountChange \/ CategoryChange \/ DifficultyChange \/ TypeChange

SpecOptions == InitOptions /\ [][NextOptions]_vars

\* ---------------------------------------------- the error panel, by itself
\* ErrorPanel from its mount by a failed fetch to the retry that unmounts
\* it. Requests still in flight when the panel is mounted can fail in turn
\* while it is shown: App then re-renders the mounted panel with the new
\* code (inflight counts these requests).
errorRest == <<gameStarted, elapsed, finishedStats, questions, error, appPend,
               elapsedTimer, mpVars, effVars, locked, entry, completions,
               weighed, accepted, scored, boardVars, optVars, sideVars, choiceVars>>

InitError ==
    /\ SessionIdle /\ BoardIdle /\ SideIdle /\ OptionsIdle /\ ChoiceIdle
    /\ ErrorIdle

\* A fetch fails and App mounts ErrorPanel with the code of the message:
\* useState(isRateLimited ? 6 : 0); the effect of the first render is pending.
ErrorMount ==
    /\ code = NULL
    /\ \E msg \in FailureMessages, n \in 0..(MaxInflight - 1) :
        /\ code' = errorCode(msg)
        /\ seconds' = IF isRateLimited(errorCode(msg)) THEN RetrySeconds ELSE 0
        /\ inflight' = n
    /\ pendRetry' = TRUE
    /\ retryTimer' = FALSE
    /\ ticks' = 0
    /\ evt' = "errorMount"
    /\ UNCHANGED errorRest

\* Another fetch fails with a different message while the panel is shown:
\* the panel re-renders with the new code. Its pending effect runs first;
\* the effect is scheduled anew when isRateLimited changed.
ErrorCode ==
    /\ code # NULL
    /\ inflight > 0
    /\ \E msg \in FailureMessages :
        /\ errorCode(msg) # code
        /\ code' = errorCode(msg)
        /\ pendRetry' = (isRateLimited(errorCode(msg)) # isRateLimited(code))
    /\ LET e == IF pendRetry THEN RetryEffect(code, seconds, retryTimer, ticks)
                ELSE [seconds |-> seconds, retryTimer |-> retryTimer, ticks |-> ticks]
       IN seconds' = e.seconds /\ retryTimer' = e.retryTimer /\ ticks' = e.ticks
    /\ inflight' = inflight - 1
    /\ evt' = "errorCode"
    /\ UNCHANGED errorRest

\* The deferred effect of the panel's last render runs.
ErrorFlush ==
    /\ code # NULL
    /\ pendRetry
    /\ LET e == RetryEffect(code, seconds, retryTimer, ticks)
       IN seconds' = e.seconds /\ retryTimer' = e.retryTimer /\ ticks' = e.ticks
    /\ pendRetry' = FALSE
    /\ evt' = "errorFlush"
    /\ UNCHANGED <<code, inflight, errorRest>>

\* The countdown interval fires: setSeconds with the updater. When the
\* seconds change the panel re-renders and its pending effect runs first.
RetryTick ==
    /\ retryTimer
    /\ LET u == SecondsUpdate(seconds)
           e == IF pendRetry /\ u.seconds # seconds
                THEN RetryEffect(code, u.seconds, ~u.cleared, ticks + 1)
                ELSE [seconds |-> u.seconds, retryTimer |-> ~u.cleared,
                      ticks |-> ticks + 1]
       IN /\ seconds' = e.seconds
          /\ retryTimer' = e.retryTimer
          /\ ticks' = e.ticks
          /\ pendRetry' = (pendRetry /\ u.seconds = seconds)
    /\ evt' = "retryTick"
    /\ UNCHANGED <<code, inflight, errorRest>>

\* The retry button is clicked. Disabled, it dispatches nothing; enabled, it
\* calls handleRetry, whose setError(null) unmounts the panel (the cleanup
\* of its effect clears the interval).
ClickRetry ==
    /\ code # NULL
    /\ IF canRetry(code, seconds)
       THEN /\ code' = NULL
            /\ seconds' = 0
            /\ retryTimer' = FALSE
            /\ pendRetry' = FALSE
            /\ ticks' = 0
            /\ inflight' = 0
            /\ evt' = "errorRetry"
       ELSE /\ evt' = "retryDisabled"
            /\ UNCHANGED <<code, seconds, retryTimer, pendRetry, ticks, inflight>>
    /\ UNCHANGED errorRest

NextError == ErrorMount \/ ErrorCode \/ ErrorFlush \/ RetryTick \/ ClickRetry

SpecError == InitError /\ [][NextError]_vars

\* ------------------------------------------ MultipleChoice, by itself
\* MultipleChoice mounted on a list of answers (the first one correct): the
\* first render shuffles them; then options are clicked.
AnswerLists == SeqsUpTo({"A", "B"}, MaxAnswers)

InitChoice ==
    /\ SessionIdle /\ BoardIdle /\ SideIdle /\ OptionsIdle /\ ErrorIdle
    /\ answers \in AnswerLists
    /\ shuffled \in shuffle(Items(answers))
    /\ sel = NoSel
    /\ reported = <<>>

\* handle(i) of the option displayed at position i (counted from 0).
ChoiceSelect ==
    /\ \E i \in 0..(Len(shuffled) - 1) :
        IF locked
        THEN /\ evt' = "choiceLocked"
             /\ UNCHANGED <<sel, locked, reported>>
        ELSE /\ sel' = i
             /\ locked' = TRUE
             /\ reported' = Append(reported,
                    [option |-> i, isCorrect |-> i = correctIndex(shuffled)])
             /\ evt' = "choice"
    /\ UNCHANGED <<appVars, appPend, elapsedTimer, mpVars, effVars, entry,
                   completions, weighed, accepted, scored, boardVars, optVars,
                   sideVars, errVars, answers, shuffled>>

NextChoice == ChoiceSelect

SpecChoice == InitChoice /\ [][NextChoice]_vars

\* ================================================================== claims
SubmitEvents == {"answerLocked", "answerIgnored", "answerCorrect", "answerWrong"}
NextClickEvents == {"nextDisabled", "next", "finish"}

\* C1: a question whose countdown expired unanswered is Locked with
\* timeExpired = true and resolved as incorrect: while it is flagged expired,
\* correctCount and the running weighted score are those it was entered with.
C1_ExpiredResolvesIncorrect ==
    (View = "main" /\ timeExpired /\ answered)
        => (score = entry.score /\ trueScore = entry.trueScore)

\* C2: once the question is Locked (answered is set, by an answer or by the
\* expiry), a further submit leaves correctCount, the weighted score, the
\* answered flag, the index and the countdown unchanged.
C2_SubmitOnce ==
    [][(View = "main" /\ answered /\ evt' \in SubmitEvents)
        => UNCHANGED <<score, trueScore, answered, index, countdown>>]_vars

\* C2 witness: an answer submitted after the expiry of the question was ignored.
C2_Witness ==
    View = "main" /\ evt = "answerIgnored" /\ timeExpired /\ answered /\ locked

\* C3: in every state of a session 0 <= countdown <= 10.
C3_CountdownRange ==
    View = "main" => (0 <= countdown /\ countdown <= CountdownStart)

\* C4: a countdown tick delivered while the question is Locked changes neither
\* the countdown nor timeExpired, correctCount or the weighted score.
C4_NoTickAfterAnswer ==
    [][(View = "main" /\ answered /\ evt' = "tick")
        => UNCHANGED <<countdown, timeExpired, score, trueScore>>]_vars

\* C5: at most one countdown interval is active, it was created for the
\* current question, and none is active once an answer is submitted, once the
\* question is otherwise Locked, or when no session is on screen.
C5_OneTimerOfCurrentQuestion ==
    /\ Len(timers) <= 1
    /\ \A i \in DOMAIN timers : timers[i] = index
    /\ answered => timers = <<>>
    /\ View # "main" => timers = <<>>

\* C6: an advance from a Locked question that is not the last one increases
\* the index by exactly 1, and when the effects of the new question's first
\* render have run the question is AwaitingAnswer with countdown = 10,
\* answered = false and timeExpired = false.
C6_AdvanceEntersFresh ==
    [][/\ (evt' = "next") => (index' = index + 1 /\ ~answered')
       /\ (View = "main" /\ pendReset /\ evt' = "flush")
            => (countdown' = CountdownStart /\ ~answered' /\ ~timeExpired')]_vars

\* C7: a click on Next/Finish while the current question is AwaitingAnswer
\* changes neither the index, the finished flag, the answered flag nor the
\* scores, emits no completion event and leaves the session on screen.
C7_AdvanceWhileAwaitingIsNoop ==
    [][(View = "main" /\ ~answered /\ evt' \in NextClickEvents)
        => /\ UNCHANGED <<index, finished, answered, score, trueScore,
                          finishedStats, completions>>
           /\ View' = "main"]_vars

\* C7 witness: Next was clicked on a question that is still AwaitingAnswer.
C7_Witness ==
    View = "main" /\ evt = "nextDisabled" /\ ~answered /\ ~timeExpired /\ index = 1

\* C8: the session becomes Finished only by an advance from the Locked state
\* of the last question; that step emits the only completion event of the
\* session, carrying correctCount and weightedScoreRunning * 60 / max(60, elapsed).
C8_FinishOnce ==
    [][/\ (finishedStats' # finishedStats /\ finishedStats' # NoStats)
            => /\ View = "main" /\ answered /\ index = Len(questions) - 1
               /\ evt' = "finish"
               /\ completions = 0 /\ completions' = 1
               /\ finishedStats'.score = score
               /\ finishedStats'.trueScore.num * Max(GraceSeconds, elapsed)
                    = trueScore * GraceSeconds * finishedStats'.trueScore.den
       /\ (completions' > completions)
            => (finishedStats = NoStats /\ finishedStats' # NoStats)
       /\ (View # "leaderboard" /\ View' = "leaderboard")
            => finishedStats' # finishedStats]_vars

\* C8 witness: a session of two questions, both answered correctly, finished.
C8_Witness ==
    /\ View = "leaderboard" /\ evt = "finish" /\ completions = 1
    /\ Len(questions) = 2 /\ finishedStats.score = 2

\* C9: with an empty question list no question state is entered: no countdown
\* interval is started, the countdown is not decremented, no answer or expiry
\* is recorded and no completion event is emitted.
C9_EmptyListEntersNoQuestion ==
    questions = <<>>
        => /\ timers = <<>> /\ countdown = CountdownStart
           /\ ~answered /\ ~timeExpired
           /\ finishedStats = NoStats

\* C10: weight(easy) = 1.0, weight(medium) = 1.3, weight(hard) = 1.7, every
\* other string (the empty one, differently cased ones) weighs 1.0, and
\* weight(easy) < weight(medium) < weight(hard).
C10_Weight ==
    /\ \A i \in DOMAIN weighed :
        /\ weighed[i].d = "easy" => weighed[i].w = 10
        /\ weighed[i].d = "medium" => weighed[i].w = 13
        /\ weighed[i].d = "hard" => weighed[i].w = 17
        /\ weighed[i].d \notin {"easy", "medium", "hard"} => weighed[i].w = 10
    /\ \A i, j \in DOMAIN weighed :
        ((weighed[i].d = "easy" /\ weighed[j].d = "medium")
            \/ (weighed[i].d = "medium" /\ weighed[j].d = "hard"))
        => weighed[i].w < weighed[j].w

\* C10 witness: weight() was applied to "hard", to "Hard" and to "".
C10_Witness ==
    /\ \E i \in DOMAIN weighed : weighed[i].d = "hard" /\ weighed[i].w = 17
    /\ \E i \in DOMAIN weighed : weighed[i].d = "Hard" /\ weighed[i].w = 10
    /\ \E i \in DOMAIN weighed : weighed[i].d = "" /\ weighed[i].w = 10

\* ------------------------------------------------------- scoring claims
\* C11: an accepted correct answer increases correctCount by exactly 1 and the
\* running weighted score by exactly the weight of the current question's
\* difficulty; an accepted incorrect answer, and the expiry of the countdown
\* in a step that accepts no answer, leave both unchanged.
C11_AnswerScores ==
    [][/\ (evt' = "answerCorrect")
            => /\ score' = score + 1
               /\ trueScore' - trueScore =
                    (IF questions[index + 1] = "hard" THEN 17
                     ELSE IF questions[index + 1] = "medium" THEN 13 ELSE 10)
       /\ (evt' = "answerWrong") => UNCHANGED <<score, trueScore>>
       /\ (View = "main" /\ ~timeExpired /\ timeExpired' /\ evt' # "answerCorrect")
            => UNCHANGED <<score, trueScore>>]_vars

\* C11 witness: a correct answer to a hard second question was accepted.
C11_Witness ==
    /\ View = "main" /\ evt = "answerCorrect" /\ index = 1
    /\ questions[2] = "hard"
    /\ score = entry.score + 1 /\ trueScore = entry.trueScore + 17

\* C12: the score the completion event carries is the running weighted score
\* times 60 / max(60, elapsed), with the elapsed seconds of the finishing
\* click; for elapsed <= 60 (0 included) it is the running score itself.
C12_FinalScore ==
    [][(evt' = "finish")
        => /\ finishedStats'.trueScore.num * Max(GraceSeconds, elapsed)
                = trueScore * GraceSeconds * finishedStats'.trueScore.den
           /\ elapsed <= GraceSeconds
                => finishedStats'.trueScore.num
                    = trueScore * finishedStats'.trueScore.den]_vars

\* C12 witness: a session of a medium and a hard question, both answered
\* correctly (running score 3.0), finished at 120 seconds with 3.0 * 60 / 120.
C12_Witness ==
    /\ evt = "finish" /\ elapsed = 120 /\ questions = <<"medium", "hard">>
    /\ finishedStats.score = 2
    /\ finishedStats.trueScore = [num |-> 30 * 60, den |-> 120]

\* C13: for a fixed running score the final score does not increase as the
\* elapsed seconds increase past 60, and for every elapsed value
\* 0 <= final score <= running score.
C13_FactorMonotone ==
    /\ \A i, j \in DOMAIN scored :
        (GraceSeconds <= scored[i].e /\ scored[i].e <= scored[j].e)
            => FracDiff(scored[j].f, scored[i].f) <= 0
    /\ \A i \in DOMAIN scored :
        /\ FracDiff(scored[i].f, Frac(0)) >= 0
        /\ FracDiff(scored[i].f, Frac(scored[i].t)) <= 0

\* C13 witness: the running score 4.0 was adjusted at 61 and at 120 seconds,
\* and the later result is smaller.
C13_Witness ==
    /\ Len(scored) >= 2
    /\ scored[1].t = 40 /\ scored[1].e = 61 /\ scored[2].e = 120
    /\ FracDiff(scored[2].f, scored[1].f) < 0

\* C14: three questions easy, medium, hard, all answered correctly: the
\* completion event carries correctCount 3, the running weighted score is
\* 4.0, the final score is 4.0 at 30 elapsed seconds and 2.0 at 120.
C14_Scenario ==
    [][(evt' = "finish" /\ questions = <<"easy", "medium", "hard">>
            /\ accepted = <<TRUE, TRUE, TRUE>>)
        => /\ finishedStats'.score = 3
           /\ trueScore = 40
           /\ elapsed = 30
                => finishedStats'.trueScore.num = 40 * finishedStats'.trueScore.den
           /\ elapsed = 120
                => finishedStats'.trueScore.num = 20 * finishedStats'.trueScore.den]_vars

\* C14 witness: that session finished at 120 seconds with 3 correct answers
\* and the final score 2.0.
C14_Witness ==
    /\ evt = "finish" /\ questions = <<"easy", "medium", "hard">> /\ elapsed = 120
    /\ finishedStats.score = 3
    /\ finishedStats.trueScore.num = 20 * finishedStats.trueScore.den

\* ---------------------------------------------------- leaderboard claims
\* a.score >= b.score as the program's language evaluates it: false when
\* either score is undefined.
ScoreGeq(x, y) == x # NoScore /\ y # NoScore /\ x >= y

\* Sorted by (trueScore descending, score descending): for all adjacent
\* (a, b), a.trueScore > b.trueScore, or they are equal and a.score >= b.score.
Sorted(l) ==
    \A i \in 1..(Len(l) - 1) :
        \/ FracDiff(l[i].trueScore, l[i + 1].trueScore) > 0
        \/ /\ FracDiff(l[i].trueScore, l[i + 1].trueScore) = 0
           /\ ScoreGeq(l[i].score, l[i + 1].score)

\* b ranks strictly higher than a; a ranks at least as high as b when b does
\* not rank strictly higher.
RanksHigher(b, a) ==
    \/ FracDiff(b.trueScore, a.trueScore) > 0
    \/ /\ FracDiff(b.trueScore, a.trueScore) = 0
       /\ a.score # NoScore /\ b.score # NoScore /\ b.score > a.score
RanksAtLeast(a, b) == ~RanksHigher(b, a)

\* How often x occurs in the list l.
Count(x, l) == Cardinality({i \in DOMAIN l : l[i] = x})

\* C15: after every save the leaderboard has at most 10 entries, whatever the
\* length of the list before the save.
C15_SaveKeepsTen == evt = "save" => Len(leaderboard) <= MaxBoard

\* C15 witness: a save into a list of 11 entries left 10.
C15_Witness == evt = "save" /\ Len(prevBoard) = MaxBoard + 1 /\ Len(leaderboard) = MaxBoard

\* C16: after every save the leaderboard is sorted by (trueScore descending,
\* score descending), whatever the order of the list before the save.
C16_SaveSorts == evt = "save" => Sorted(leaderboard)

\* C17: whenever App is mounted, also right after load, the leaderboard has
\* at most 10 entries and is sorted by (trueScore descending, score descending).
C17_BoardInvariant ==
    boot = "mounted" => (Len(leaderboard) <= MaxBoard /\ Sorted(leaderboard))

\* C18: the list a save returns holds min(10, n + 1) entries of the multiset
\* of the previous list plus the new entry, each with its four fields as they
\* were, and an entry of that multiset is absent only if the list is full and
\* every entry in it ranks at least as high.
C18_SaveTopOfMultiset ==
    evt = "save" =>
        LET all == <<lastEntry>> \o prevBoard
        IN /\ Len(leaderboard) = IF Len(all) < MaxBoard THEN Len(all) ELSE MaxBoard
           /\ \A i \in DOMAIN leaderboard :
                Count(leaderboard[i], leaderboard) <= Count(leaderboard[i], all)
           /\ \A i \in DOMAIN all :
                Count(all[i], leaderboard) < Count(all[i], all)
                    => /\ Len(leaderboard) = MaxBoard
                       /\ \A j \in DOMAIN leaderboard :
                            RanksAtLeast(leaderboard[j], all[i])

\* C18 witness: a save into a full list dropped a previous entry and kept the
\* new one.
C18_Witness ==
    /\ evt = "save" /\ Len(prevBoard) = MaxBoard /\ Len(leaderboard) = MaxBoard
    /\ \E j \in DOMAIN leaderboard : leaderboard[j] = lastEntry
    /\ \E i \in DOMAIN prevBoard : Count(prevBoard[i], leaderboard) = 0

\* C19: load returns an empty list and propagates no error when reading the
\* slot throws, when the text is no JSON, and when the parsed value is no
\* sequence of records.
C19_LoadFailsEmpty ==
    (evt = "load"
        /\ \/ storage.kind \in {"throws", "invalid", "scalar"}
           \/ \E i \in DOMAIN storage.items : storage.items[i].kind # "record")
        => (boot = "mounted" /\ leaderboard = <<>>)

\* C20: load gives a stored record without trueScore the trueScore of its
\* score and leaves the trueScore of a record that has one, keeping name,
\* score and date of both.
C20_LoadLegacy ==
    (evt = "load" /\ storage.kind = "array"
        /\ \A i \in DOMAIN storage.items : storage.items[i].kind # "null")
        => /\ Len(leaderboard) = Len(storage.items)
           /\ \A i \in DOMAIN storage.items :
                storage.items[i].kind = "record" =>
                    /\ leaderboard[i].name = storage.items[i].name
                    /\ leaderboard[i].score = storage.items[i].score
                    /\ leaderboard[i].date = storage.items[i].date
                    /\ storage.items[i].trueScore # NoTrue
                        => leaderboard[i].trueScore = storage.items[i].trueScore
                    /\ (storage.items[i].trueScore = NoTrue
                            /\ storage.items[i].score # NoScore)
                        => leaderboard[i].trueScore.num
                            = 10 * storage.items[i].score * leaderboard[i].trueScore.den

\* C20 witness: a legacy record and a record with a trueScore were loaded.
C20_Witness ==
    /\ evt = "load" /\ Len(leaderboard) = 2
    /\ storage.items[1].trueScore = NoTrue /\ leaderboard[1].score = 1
    /\ leaderboard[1].trueScore = Frac(10)
    /\ storage.items[2].trueScore = Frac(27) /\ leaderboard[2].trueScore = Frac(27)

\* C21: when the storage write of a save fails, the failure is swallowed: App
\* stays mounted and the handler runs to its end, the leaderboard state
\* becomes the sorted top-ten list of the new entry and the previous entries
\* (one entry longer unless it was full), and the storage slot keeps the
\* content it had before the save.
C21_WriteFailureSwallowed ==
    [][(evt' = "save" /\ lastWrite' = "failed") =>
          /\ boot' = "mounted"
          /\ panelSaved'
          /\ storage' = storage
          /\ leaderboard' = Top(SortBoard(<<lastEntry'>> \o leaderboard))
          /\ Len(leaderboard') = IF Len(leaderboard) < MaxBoard
                                 THEN Len(leaderboard) + 1 ELSE MaxBoard
          /\ lastEntry'.name \in {FinalName(n) : n \in NameInputs}]_vars

\* A save whose write failed put its entry on a full board, over a slot that
\* held a stored list.
C21_Witness ==
    /\ evt = "save"
    /\ lastWrite = "failed"
    /\ storage.kind = "array"
    /\ Len(leaderboard) = MaxBoard
    /\ Len(prevBoard) = MaxBoard
    /\ \E i \in 1..Len(leaderboard) : leaderboard[i] = lastEntry
    /\ Load(storage).list = prevBoard

\* C22: after a save whose storage write succeeded, loading from the same
\* storage slot raises nothing and yields the list the save produced: the
\* same entries (name, score, trueScore, date) in the same order.
C22_RoundTrip ==
    (evt = "save" /\ lastWrite = "ok") =>
        /\ ~Load(storage).threw
        /\ Load(storage).list = leaderboard

\* A successful save wrote a list of several entries, one of them loaded
\* from a stored record without trueScore.
C22_Witness ==
    /\ evt = "save"
    /\ lastWrite = "ok"
    /\ Len(leaderboard) >= 3
    /\ \E i \in 1..Len(leaderboard) : leaderboard[i] = lastEntry
    /\ \E i \in 1..Len(leaderboard) : leaderboard[i].name = <<"B">>
    /\ Load(storage).list = leaderboard

\* The query u has a parameter of key k.
HasParam(u, k) == \E i \in 1..Len(u) : u[i].key = k
\* The values the query u carries for key k.
ParamValues(u, k) == {u[i].value : i \in {j \in 1..Len(u) : u[j].key = k}}

\* C23: the query buildApiUrl builds for given options always carries the
\* amount; it carries the category exactly when the category is nonzero, the
\* difficulty exactly when it is not 'any' and the type exactly when it is
\* not 'any', each with the value of the option and nothing else; for
\* {amount: 5, category: 0, difficulty: any, type: any} it carries the
\* amount alone.
C23_BuildApiUrl ==
    evt = "url" =>
        /\ ParamValues(url, "amount") = {ToString(gameOptions.amount)}
        /\ HasParam(url, "category") <=> gameOptions.category # 0
        /\ HasParam(url, "category") =>
              ParamValues(url, "category") = {ToString(gameOptions.category)}
        /\ HasParam(url, "difficulty") <=> gameOptions.difficulty # "any"
        /\ HasParam(url, "difficulty") =>
              ParamValues(url, "difficulty") = {gameOptions.difficulty}
        /\ HasParam(url, "type") <=> gameOptions.type # "any"
        /\ HasParam(url, "type") => ParamValues(url, "type") = {gameOptions.type}
        /\ \A i \in 1..Len(url) :
              /\ url[i].key \in {"amount", "category", "difficulty", "type"}
              /\ \A j \in 1..Len(url) : url[j].key = url[i].key => j = i
        /\ gameOptions = DefaultOptions => url = <<Param("amount", "5")>>

\* The URL was built for the options of the scenario.
C23_Witness ==
    /\ evt = "url"
    /\ gameOptions = [amount |-> 5, category |-> 0, difficulty |-> "any", type |-> "any"]
    /\ Len(url) = 1
    /\ url[1] = Param("amount", "5")

\* C25: in every state of a session the number of correct answers is at most
\* the index of the current question plus one, and at most the index while
\* the current question is not answered yet.
C25_ScoreBound ==
    /\ score <= index + 1
    /\ ~answered => score <= index

\* The bound is met: the second question was answered and every question so
\* far was answered correctly.
C25_Witness ==
    /\ View = "main"
    /\ index = 1
    /\ answered
    /\ score = index + 1
    /\ accepted = <<TRUE, TRUE>>

\* C26: while MainPanel stays mounted, answered once true stays true as long
\* as the index is the same; the one step that sets it back to false is the
\* advance of the Next button, which increases the index by one.
C26_AnsweredMonotonic ==
    [][(View = "main" /\ View' = "main" /\ answered) =>
          /\ index' = index => answered'
          /\ ~answered' => (index' = index + 1 /\ evt' = "next")]_vars

\* An advance entered the second question unanswered after the first was
\* answered.
C26_Witness ==
    /\ View = "main"
    /\ evt = "next"
    /\ index = 1
    /\ ~answered
    /\ Len(accepted) = 1

\* C24: a failed fetch puts App on its error panel, and while the error
\* panel is shown no question is in play (MainPanel is not mounted and no
\* countdown runs), the elapsed seconds do not advance, the error panel is
\* left only by a retry or a restart, and no fetch is started by anything
\* but a retry, a restart or a start.
C24_FetchFailureShown ==
    [][/\ evt' = "fetchFail" => (View' = "error" /\ ~QuestionShown' /\ timers' = <<>>)
       /\ (View = "error" /\ View' = "error") =>
             (elapsed' = elapsed /\ ~QuestionShown' /\ timers' = <<>>)
       /\ (View = "error" /\ View' # "error") => evt' \in {"retry", "restart"}
       /\ inflight' > inflight => evt' \in {"retry", "restart", "start"}]_vars

\* C27: the first question of a session (the question on screen when the
\* questions fetched by a Start, Restart or Retry arrive) is entered with
\* index 0, no correct answer, running score 0, answered false, countdown
\* 10 and elapsed seconds 0.
C27_SessionStartsFresh ==
    (evt = "fetchOk" /\ QuestionShown) =>
        /\ index = 0
        /\ score = 0
        /\ trueScore = 0
        /\ ~answered
        /\ countdown = CountdownStart
        /\ elapsed = 0

\* C28: after every change of an option in the options panel (amount,
\* category, difficulty, or either question-type checkbox) the options last
\* delivered to App are the panel's current selections.
C28_OptionsDelivered ==
    evt \in {"amountChange", "categoryChange", "difficultyChange", "typeChange"} =>
        pendingOptions = ClosureOptions(optionsPanel)

\* C29: in the error panel, for code 429 a click on retry is refused while
\* the seconds are above 0; the seconds are 6 when the panel comes to show
\* a 429, each tick of the countdown takes 1 off, they never go below 0 and
\* are 0 after 6 ticks, when retry is accepted; for every other code retry
\* is accepted at once.
C29_RetryCountdown ==
    [][/\ (evt' = "errorRetry" /\ isRateLimited(code)) => seconds = 0
       /\ (evt' = "retryDisabled") => (isRateLimited(code) /\ seconds > 0)
       /\ (evt' \in {"errorMount", "errorCode"} /\ isRateLimited(code')) =>
             seconds' = RetrySeconds
       /\ (evt' = "retryTick" /\ isRateLimited(code)) =>
             seconds' = Max(seconds - 1, 0)
       /\ seconds' >= 0
       /\ (isRateLimited(code') /\ ticks' = RetrySeconds) =>
             (seconds' = 0 /\ canRetry(code', seconds'))
       /\ (evt' \in {"errorMount", "errorCode"} /\ ~isRateLimited(code')) =>
             canRetry(code', seconds')]_vars

\* C30: whatever the shuffle drew, the options MultipleChoice displays are
\* the given answers in some order (each given answer displayed once, the
\* given list itself as it was), and a click on an option reports isCorrect
\* = true exactly when the option is the answer that was first in the given
\* list.
C30_ShuffledChoice ==
    /\ Len(shuffled) = Len(answers)
    /\ {shuffled[k].i : k \in 1..Len(shuffled)} = 0..(Len(answers) - 1)
    /\ \A k \in 1..Len(shuffled) : shuffled[k].t = answers[shuffled[k].i + 1]
    /\ \A n \in 1..Len(reported) :
          reported[n].isCorrect <=> shuffled[reported[n].option + 1].i = 0

\* The shuffle moved the correct answer of four to the third place and a
\* click on it was reported correct.
C30_Witness ==
    /\ Len(answers) = 4
    /\ answers[1] = "A" /\ answers[2] = "B"
    /\ shuffled[3].i = 0
    /\ shuffled[1].i = 2
    /\ locked
    /\ sel = 2
    /\ reported = <<[option |-> 2, isCorrect |-> TRUE]>>

\* C31: the question type the options panel derives from its two checkboxes
\* (as delivered with a change of amount, category or difficulty) is 'any'
\* when both or neither are checked, 'boolean' when only True/False is
\* checked and 'multiple' when only Multiple Choice is checked.
C31_TypeValue ==
    evt \in {"amountChange", "categoryChange", "difficultyChange"} =>
        /\ (optionsPanel.typeBoolean = optionsPanel.typeMultiple) =>
              pendingOptions.type = "any"
        /\ (optionsPanel.typeBoolean /\ ~optionsPanel.typeMultiple) =>
              pendingOptions.type = "boolean"
        /\ (~optionsPanel.typeBoolean /\ optionsPanel.typeMultiple) =>
              pendingOptions.type = "multiple"

\* Options were delivered with both checkboxes checked.
C31_Witness ==
    /\ evt = "difficultyChange"
    /\ optionsPanel.typeBoolean
    /\ optionsPanel.typeMultiple
    /\ pendingOptions.type = "any"
    /\ pendingOptions.difficulty = "hard"

\* C32: the elapsed seconds increase only while a question is in play (not
\* on the welcome panel, while loading, on the error panel or after the
\* completion event), by one for each tick of the elapsed interval,
\* answered or not; they are 0 when the first question of a session appears.
C32_ElapsedOnlyInPlay ==
    [][/\ elapsed' > elapsed => (QuestionShown /\ elapsed' = elapsed + 1)
       /\ (evt' = "elapsed" /\ QuestionShown) => elapsed' = elapsed + 1
       /\ (evt' = "fetchOk" /\ QuestionShown') => elapsed' = 0]_vars

\* C33: while a session is in play (MainPanel stays mounted) its question
\* list does not change, whatever responses of overlapping fetches arrive,
\* and the index stays within the list in play.
C33_QuestionsFixedInPlay ==
    [][(View = "main" /\ View' = "main") =>
          (questions' = questions /\ ~RenderThrows')]_vars

\* C35: once the questions fetched by a Start, Restart or Retry have arrived
\* (a non-empty list, no request left in flight, no error), the application
\* shows a question of the new session, not the results of an earlier
\* finished session.
C35_NewGameShown ==
    (evt = "fetchOk" /\ questions # <<>> /\ inflight = 0 /\ error = NULL) =>
        View = "main"

\* C37: the running weighted score (in tenths) lies between 1.0 and 1.7
\* times the correct count, so it is 0 exactly when the correct count is 0,
\* and the correct count never exceeds the number of questions.
C37_WeightedScoreBounds ==
    /\ 10 * score <= trueScore
    /\ trueScore <= 17 * score
    /\ (trueScore = 0) <=> (score = 0)
    /\ questions # NoQuestions => score <= Len(questions)

\* C40: a question flagged as expired is answered, in every state, the
\* first render after an advance from an expired question included.
C40_ExpiredImpliesAnswered == timeExpired => answered

\* Entries x and y tie: the same weighted score and the same score.
Tied(x, y) ==
    /\ FracDiff(x.trueScore, y.trueScore) = 0
    /\ x.score # NoScore /\ y.score # NoScore /\ x.score = y.score

\* The entries of l that tie with e, in the order of l.
TiedWith(e, l) == LET T(x) == Tied(x, e) IN SelectSeq(l, T)

\* s is an initial part of t.
IsPrefix(s, t) == Len(s) <= Len(t) /\ s = SubSeq(t, 1, Len(s))

\* C38: after a save the entries of the board that tie with the new entry
\* are the new entry first, then the previous tied entries in their previous
\* order (the last of them cut off when the board overflows); on a full
\* board of tied entries the previous last entry is the one dropped.
C38_TiesNewestFirst ==
    evt = "save" =>
        /\ IsPrefix(TiedWith(lastEntry, leaderboard),
                    <<lastEntry>> \o TiedWith(lastEntry, prevBoard))
        /\ (Len(prevBoard) = MaxBoard
                /\ TiedWith(lastEntry, prevBoard) = prevBoard) =>
            leaderboard = <<lastEntry>> \o SubSeq(prevBoard, 1, MaxBoard - 1)

\* A save onto a full board of ten tied entries: the new entry is first and
\* the previous first nine follow.
C38_Witness ==
    /\ evt = "save"
    /\ Len(prevBoard) = MaxBoard
    /\ TiedWith(lastEntry, prevBoard) = prevBoard
    /\ leaderboard[1] = lastEntry
    /\ leaderboard[MaxBoard] = prevBoard[MaxBoard - 1]

\* C34: a save is made only of a completion that was not saved before: the
\* (score, trueScore) held in finishedStats is saved at most once before
\* Play again clears it.
C34_OneEntryPerCompletion == [][evt' = "save" => ~savedCompletion]_vars

\* The ends of the amount slider.
AmountMin == 3
AmountMax == 30

\* C39: the options a Restart fetches with are the selections the options
\* panel displays (amount, category, difficulty, checkbox-derived type),
\* also before any option was changed, and the amount of every fetch lies
\* within the slider's range.
C39_FetchOptionsShown ==
    /\ evt = "restart" => gameOptions = ClosureOptions(optionsPanel)
    /\ evt \in {"start", "restart"} =>
           (AmountMin <= gameOptions.amount /\ gameOptions.amount <= AmountMax)

\* C36: under fair ticks every question on screen that awaits its answer
\* becomes Locked (or leaves the screen) whatever the user does or omits;
\* no tick falls on an unanswered question whose ten seconds are used up;
\* and the index, the finished flag and the completion of the session
\* change only by the Next/Finish button, never by expiry.
C36_ExpiryLocksNeverAdvances ==
    /\ (QuestionShown /\ ~answered) ~> (answered \/ ~QuestionShown)
    /\ [][(evt' = "tick" /\ QuestionShown /\ ~answered) => countdown > 0]_vars
    /\ [][/\ ((View = "main" /\ View' = "main"
                /\ (index' # index \/ finished' # finished))
                   => evt' \in {"next", "finish"})
           /\ ((finishedStats = NoStats /\ finishedStats' # NoStats)
                   => evt' = "finish")]_vars
====
